---- MODULE Spec2Model ----
(***************************************************************************)
(* Model of the backing-event pipeline of group-tms:                       *)
(*   src/clients/lbp_indexer.py  CirclesBackingHandler                     *)
(*   src/clients/screening.py    ScreeningClient                           *)
(* The handler polls the chain height, queries the indexer for             *)
(* CirclesBackingCompleted rows, drops the rows whose event_id is already  *)
(* in processed_events, screens the backers, submits one trustBatch        *)
(* transaction and marks the events processed.                             *)
(*                                                                         *)
(* The program is one synchronous thread.  pc is its position; it stops    *)
(* at each blocking call to the outside world (block height, indexer       *)
(* query, screening service, transaction submission, sleep), whose answer  *)
(* is drawn nondeterministically.                                          *)
(*                                                                         *)
(* An address string is a record [id, form]: id is the account it spells   *)
(* (0: a string that spells no account), form is its letter case.          *)
(* str.lower() and to_checksum_address() change the form only, and two     *)
(* strings are equal in Python only when id and form are both equal.       *)
(***************************************************************************)
EXTENDS Integers, Sequences, FiniteSets

\* ---------------------------------------------------------------- bounds
\* rows the indexer table can hold
NumRows == 4
\* distinct well-formed backer accounts
NumAddrs == 2
\* how far the chain height can run ahead of deployment_block + Backfill
MaxAdvance == 1
\* longest address list handed directly to trust_batch_with_Conditions
MaxBatch == 2

\* ------------------------------------------------------ program constants
\* run_event_processor: deployment_block = 39741602
deployment_block == 39741602
\* run_event_processor: self.web3.eth.block_number - 1000
Backfill == 1000

VARIABLES
    pc,                     \* position of the single thread
    latest_processed_block, \* the cursor (local of run_event_processor)
    current_block,          \* the height last read from the node
    processed_events,       \* self.processed_events
    rows,                   \* rows the indexer returned in this cycle
    events,                 \* result of fetch_backing_completed_events
    backer_addresses,       \* locals of process_backing_completed_events
    blacklisted,
    valid_backers,
    checksum_backers,
    screening,              \* how the screening call of this cycle ended
    trust_call,             \* the trust_batch_with_Conditions call of this cycle
    cycle,                  \* bookkeeping of the current cycle (see NoCycle)
    prev,                   \* bookkeeping of the previous cycle
    fetching,               \* how the event fetch of this cycle ended
    calls                   \* what this cycle has done so far, in order

vars == <<pc, latest_processed_block, current_block, processed_events, rows,
          events, backer_addresses, blacklisted, valid_backers,
          checksum_backers, screening, trust_call, cycle, prev, fetching, calls>>

\* ------------------------------------------------------------- addresses
Max(a, b) == IF a >= b THEN a ELSE b

Lower(a) == [a EXCEPT !.form = "lower"]

IsAddress(a) == a.id # 0

\* web3.to_checksum_address: defined on well-formed addresses only
ToChecksum(a) == [a EXCEPT !.form = "checksum"]

\* the account a string spells, whatever its letter case
SameAccount(a, b) == a.id = b.id

SeqToSet(s) == {s[i] : i \in 1..Len(s)}

\* ------------------------------------------------------- the indexer table
\* Row i of the CirclesBackingCompleted table.  Every third row carries a
\* backer string that is no address; with NumAddrs = 2, rows 2 and 4 have the
\* same backer.
RowBacker(i) ==
    IF i % 3 = 0
    THEN [id |-> 0, form |-> "lower"]
    ELSE [id |-> ((i - 1) % NumAddrs) + 1,
          form |-> IF i % 2 = 1 THEN "checksum" ELSE "lower"]

Row(i) ==
    [backer |-> RowBacker(i),
     circlesBackingInstance |-> [id |-> NumAddrs + i, form |-> "checksum"],
     blockNumber |-> deployment_block + Backfill - 2 + i,
     transactionHash |-> i]

\* the rows with the transaction hashes in S, in table order
QueryRows(S) ==
    LET all == [i \in 1..NumRows |-> Row(i)]
        InS(r) == r.transactionHash \in S
    IN  SelectSeq(all, InS)

\* heights the node can report
ChainHeights ==
    (deployment_block + Backfill - 1)..(deployment_block + Backfill + MaxAdvance)


\* ------------------------------------------- fetch_backing_completed_events
\* event_id = f"{tx_hash}_{backer}_{instance}" with backer, instance lowered
EventId(row) ==
    <<row.transactionHash, Lower(row.backer), Lower(row.circlesBackingInstance)>>

EventOf(row) ==
    [event_id |-> EventId(row),
     backer |-> Lower(row.backer),
     instance |-> Lower(row.circlesBackingInstance),
     blockNumber |-> row.blockNumber,
     transactionHash |-> row.transactionHash]

\* fault variant of IsNew: the processed set is not consulted
IsNewAlways(event_id, processed) == TRUE

\* if event_id not in self.processed_events
IsNew(event_id, processed) == event_id \notin processed

\* the loop over result['rows']: the new rows, as events, in row order
FetchEvents(result, processed) ==
    LET Keep(row) == IsNew(EventId(row), processed)
        kept == SelectSeq(result, Keep)
    IN  [i \in 1..Len(kept) |-> EventOf(kept[i])]

\* fault variant of OnFetchError: the failure is passed on to the caller
OnFetchErrorPropagates(result, processed) == [raised |-> TRUE, events |-> <<>>]

\* except Exception: return [] -- whatever was received or parsed so far
OnFetchError(result, processed) == [raised |-> FALSE, events |-> <<>>]

EventIds(evs) == {evs[i].event_id : i \in 1..Len(evs)}

RowIds(rs) == {EventId(rs[i]) : i \in 1..Len(rs)}

\* backer_addresses = [event["backer"] for event in events]
BackerAddresses(evs) == [i \in 1..Len(evs) |-> evs[i].backer]

\* ------------------------------------------------------- ScreeningClient
\* what the classifier can say about one address
VerdictClasses ==
    {[is_bot |-> FALSE, category |-> "human"],
     [is_bot |-> TRUE,  category |-> "human"],
     [is_bot |-> FALSE, category |-> "blocked"],
     [is_bot |-> FALSE, category |-> "flagged"]}

\* the service spells an address as it was sent, or in checksum case
Echo(a, style) ==
    IF style = "checksum" /\ IsAddress(a) THEN ToChecksum(a) ELSE a

\* the replies of POST bot-analytics/classify for the posted addresses: a
\* request failure, a body without the expected structure, or one verdict
\* for each posted address
ScreeningReplies(addresses) ==
    LET posted == SeqToSet(addresses)
    IN  {[kind |-> "request_failed", body |-> [wellformed |-> TRUE, verdicts |-> {}]],
         [kind |-> "ok", body |-> [wellformed |-> FALSE, verdicts |-> {}]]}
        \cup
        {[kind |-> "ok",
          body |-> [wellformed |-> TRUE,
                    verdicts |-> {[address |-> Echo(a, style),
                                   is_bot |-> f[a].is_bot,
                                   category |-> f[a].category] : a \in posted}]] :
            f \in [posted -> VerdictClasses], style \in {"as_sent", "checksum"}}

\* _make_request: the parsed body, or {} on requests.RequestException
MakeRequest(reply) ==
    IF reply.kind = "request_failed"
    THEN [wellformed |-> TRUE, verdicts |-> {}]
    ELSE reply.body

IsFlagged(v) == v.is_bot \/ v.category \in {"blocked", "flagged"}

\* check_blacklist: the flagged addresses as the service spelled them; a body
\* without the expected structure raises (KeyError, TypeError, AttributeError)
CheckBlacklist(reply) ==
    LET response == MakeRequest(reply)
    IN  IF ~response.wellformed
        THEN [raised |-> TRUE, flagged |-> {}]
        ELSE [raised |-> FALSE,
              flagged |-> {v.address : v \in {w \in response.verdicts : IsFlagged(w)}}]

\* valid_backers: addr not in blacklisted compares the strings as they are
ValidBackers(addresses, flagged) ==
    LET NotListed(a) == a \notin flagged
    IN  IF flagged # {} THEN SelectSeq(addresses, NotListed) ELSE addresses

\* checksum_backers = [str(to_checksum_address(b)) for b in valid_backers]
ChecksumBackers(valid) == [i \in 1..Len(valid) |-> ToChecksum(valid[i])]

\* to_checksum_address raises ValueError on a string that is no address
ChecksumRaises(valid) == \E i \in 1..Len(valid) : ~IsAddress(valid[i])

\* -------------------------------------------- trust_batch_with_Conditions
\* how far the transaction gets
TrustOutcomes ==
    {"build_error", "sign_error", "send_error", "wait_error", "reverted", "mined"}

\* fault variant of TrustBatch: no check for an empty address list
TrustBatchNoGuard(addresses, outcome) ==
    [raised |-> outcome \in {"build_error", "sign_error", "send_error", "wait_error"},
     built  |-> outcome # "build_error",
     signed |-> outcome \notin {"build_error", "sign_error"},
     sent   |-> outcome \notin {"build_error", "sign_error", "send_error"},
     status |-> IF outcome = "mined" THEN 1 ELSE IF outcome = "reverted" THEN 0 ELSE -1]

\* the result of the call: whether it raised, how far the transaction got, and
\* the receipt's status (-1: no receipt)
TrustBatch(addresses, outcome) ==
    IF addresses = <<>>
    THEN [raised |-> TRUE, built |-> FALSE, signed |-> FALSE, sent |-> FALSE,
          status |-> -1]
    ELSE [raised |-> outcome \in {"build_error", "sign_error", "send_error", "wait_error"},
          built  |-> outcome # "build_error",
          signed |-> outcome \notin {"build_error", "sign_error"},
          sent   |-> outcome \notin {"build_error", "sign_error", "send_error"},
          status |-> IF outcome = "mined" THEN 1
                     ELSE IF outcome = "reverted" THEN 0 ELSE -1]

NoCall ==
    [called |-> FALSE, addresses |-> <<>>, raised |-> FALSE, built |-> FALSE,
     signed |-> FALSE, sent |-> FALSE, status |-> -1]

CallOf(addresses, result) ==
    [called |-> TRUE, addresses |-> addresses, raised |-> result.raised,
     built |-> result.built, signed |-> result.signed, sent |-> result.sent,
     status |-> result.status]

\* ------------------------------------- process_backing_completed_events
\* fault variant of NoValidBackers: the empty valid list is not noticed
NoValidBackersIgnored(valid) == FALSE

\* `if not valid_backers`: every collected backer was flagged
NoValidBackers(valid) == valid = <<>>

\* fault variant of MarkProcessed: nothing is added
MarkProcessedNone(processed, evs) == processed

\* fault variant of MarkProcessed: the set is replaced, not extended
MarkProcessedReplace(processed, evs) == EventIds(evs)

\* for event in events: self.processed_events.add(event["event_id"])
MarkProcessed(processed, evs) == processed \cup EventIds(evs)

\* fault variant of ProcessedAfterSubmit: marks whatever the receipt says
ProcessedAfterSubmitAlways(processed, evs, result) == MarkProcessed(processed, evs)

\* fault variant of ProcessedAfterSubmit: marks only the events whose backer
\* was submitted
ProcessedAfterSubmitTrustedOnly(processed, evs, result) ==
    IF ~result.raised /\ result.status = 1
    THEN processed \cup
         {evs[i].event_id : i \in {j \in 1..Len(evs) : evs[j].backer \in SeqToSet(valid_backers)}}
    ELSE processed

\* the try block around the trust call: mark on a receipt of status 1 only
ProcessedAfterSubmit(processed, evs, result) ==
    IF ~result.raised /\ result.status = 1
    THEN MarkProcessed(processed, evs)
    ELSE processed

\* ------------------------------------------------------ run_event_processor
\* fault variant of InitialCursor: no floor at deployment_block
InitialCursorNoFloor(H) == H - Backfill

\* max(deployment_block, self.web3.eth.block_number - 1000)
InitialCursor(H) == Max(deployment_block, H - Backfill)

\* fault variant of OnLoopError: the exception ends the process
OnLoopErrorFatal == "crashed"

\* except Exception at the bottom of the loop: log, sleep, go on
OnLoopError == "sleep"

\* fault variant of HasNewBlocks: a height equal to the cursor is processed
HasNewBlocksOrEqual(current, latest) == current >= latest

\* fault variant of HasNewBlocks: every cycle processes
HasNewBlocksAlways(current, latest) == TRUE

\* if current_block > latest_processed_block
HasNewBlocks(current, latest) == current > latest

\* fault variant of AdvanceCursor: one block per cycle
AdvanceCursorByOne(latest, current) == latest + 1

\* latest_processed_block = current_block
AdvanceCursor(latest, current) == current

\* ------------------------------------------------------------ bookkeeping
\* What the current cycle started from: the processed set and the cursor at
\* its start, whether the height was read, and whether an exception reached
\* the handler of the loop (except Exception, line 238).
NoCycle ==
    [processed_at_start |-> {}, cursor_at_start |-> 0,
     height_read |-> FALSE, error |-> FALSE]

\* the events of this cycle whose backer is in the submitted batch
SubmittedFor ==
    IF trust_call.called
    THEN {events[i].event_id :
            i \in {j \in 1..Len(events) :
                     ToChecksum(events[j].backer) \in SeqToSet(trust_call.addresses)}}
    ELSE {}

Confirmed == trust_call.called /\ ~trust_call.raised /\ trust_call.status = 1

\* What the previous cycle did: the events (returned by its query as new) whose
\* backer was in its submission attempt, and whether that attempt was confirmed.
NoPrev == [submitted |-> {}, confirmed |-> FALSE]

\* --------------------------------------------------------------- the state
\* after CirclesBackingHandler.__init__: nothing processed, loop not started
Init ==
    /\ pc = "init"
    /\ latest_processed_block = 0
    /\ current_block = 0
    /\ processed_events = {}
    /\ rows = <<>>
    /\ events = <<>>
    /\ backer_addresses = <<>>
    /\ blacklisted = {}
    /\ valid_backers = <<>>
    /\ checksum_backers = <<>>
    /\ screening = "none"
    /\ trust_call = NoCall
    /\ cycle = NoCycle
    /\ prev = NoPrev
    /\ fetching = "none"
    /\ calls = <<>>

\* run_event_processor up to the loop: the initial cursor from the height read
\* at startup; a failure to read it is not caught and ends the process
StartEventProcessor ==
    /\ pc = "init"
    /\ \/ \E H \in ChainHeights :
            /\ current_block' = H
            /\ latest_processed_block' = InitialCursor(H)
            /\ pc' = "loop"
       \/ /\ pc' = "crashed"
          /\ UNCHANGED <<current_block, latest_processed_block>>
    /\ UNCHANGED <<processed_events, rows, events, backer_addresses,
                   blacklisted, valid_backers, checksum_backers, screening,
                   trust_call, cycle, prev, fetching, calls>>

\* top of the loop: read the height and compare it with the cursor
ReadHeight ==
    /\ pc = "loop"
    /\ prev' = [submitted |-> SubmittedFor, confirmed |-> Confirmed]
    /\ rows' = <<>>
    /\ events' = <<>>
    /\ backer_addresses' = <<>>
    /\ blacklisted' = {}
    /\ valid_backers' = <<>>
    /\ checksum_backers' = <<>>
    /\ screening' = "none"
    /\ trust_call' = NoCall
    /\ fetching' = "none"
    /\ calls' = <<"height">>
    /\ \/ \E h \in ChainHeights :
            /\ current_block' = h
            /\ cycle' = [processed_at_start |-> processed_events,
                         cursor_at_start |-> latest_processed_block,
                         height_read |-> TRUE, error |-> FALSE]
            /\ pc' = IF HasNewBlocks(h, latest_processed_block) THEN "fetch" ELSE "sleep"
       \/ /\ cycle' = [processed_at_start |-> processed_events,
                       cursor_at_start |-> latest_processed_block,
                       height_read |-> FALSE, error |-> TRUE]
          /\ pc' = OnLoopError
          /\ UNCHANGED current_block
    /\ UNCHANGED <<latest_processed_block, processed_events>>

\* fetch_backing_completed_events and the check for no events: the query
\* carries no block range, so any rows of the table may come back; a transport
\* failure (no rows) or a parse failure (in the rows received) gives no events
Fetch ==
    /\ pc = "fetch"
    /\ calls' = Append(calls, "fetch")
    /\ \E S \in SUBSET (1..NumRows) :
         /\ rows' = QueryRows(S)
         /\ \/ /\ fetching' = "ok"
               /\ events' = FetchEvents(rows', processed_events)
               /\ UNCHANGED cycle
            \/ /\ fetching' = "failed"
               /\ events' = OnFetchError(rows', processed_events).events
               /\ cycle' = [cycle EXCEPT
                               !.error = OnFetchError(rows', processed_events).raised]
    /\ IF cycle'.error
       THEN /\ pc' = OnLoopError
            /\ UNCHANGED <<backer_addresses, latest_processed_block>>
       ELSE IF events' = <<>>
       THEN /\ pc' = "sleep"
            /\ latest_processed_block' = AdvanceCursor(latest_processed_block, current_block)
            /\ UNCHANGED backer_addresses
       ELSE /\ pc' = "screen"
            /\ backer_addresses' = BackerAddresses(events')
            /\ UNCHANGED latest_processed_block
    /\ UNCHANGED <<current_block, processed_events, blacklisted, valid_backers,
                   checksum_backers, screening, trust_call, prev>>

\* the screening call, the filter, the empty-valid return and the checksum
\* conversion
Screen ==
    /\ pc = "screen"
    /\ \E reply \in ScreeningReplies(backer_addresses) :
         LET r == CheckBlacklist(reply)
             valid == ValidBackers(backer_addresses, r.flagged)
         IN  IF r.raised
             THEN /\ screening' = "raised"
                  /\ cycle' = [cycle EXCEPT !.error = TRUE]
                  /\ pc' = OnLoopError
                  /\ calls' = Append(calls, "screen")
                  /\ UNCHANGED <<blacklisted, valid_backers, checksum_backers,
                                 processed_events, latest_processed_block>>
             ELSE /\ screening' = reply.kind
                  /\ blacklisted' = r.flagged
                  /\ valid_backers' = valid
                  /\ IF NoValidBackers(valid)
                     THEN /\ processed_events' = MarkProcessed(processed_events, events)
                          /\ calls' = calls \o <<"screen", "mark">>
                          /\ latest_processed_block' =
                                 AdvanceCursor(latest_processed_block, current_block)
                          /\ pc' = "sleep"
                          /\ UNCHANGED <<checksum_backers, cycle>>
                     ELSE IF ChecksumRaises(valid)
                     THEN /\ cycle' = [cycle EXCEPT !.error = TRUE]
                          /\ pc' = OnLoopError
                          /\ calls' = Append(calls, "screen")
                          /\ UNCHANGED <<checksum_backers, processed_events,
                                         latest_processed_block>>
                     ELSE /\ checksum_backers' = ChecksumBackers(valid)
                          /\ pc' = "submit"
                          /\ calls' = Append(calls, "screen")
                          /\ UNCHANGED <<processed_events, latest_processed_block, cycle>>
    /\ UNCHANGED <<current_block, rows, events, backer_addresses, trust_call, prev,
                   fetching>>

\* fault variant of Submit: the events are marked before the trust call is made
SubmitMarksFirst ==
    /\ pc = "submit"
    /\ processed_events' = MarkProcessed(processed_events, events)
    /\ \E outcome \in TrustOutcomes :
         trust_call' = CallOf(checksum_backers, TrustBatch(checksum_backers, outcome))
    /\ calls' = calls \o <<"mark", "submit">>
    /\ latest_processed_block' = AdvanceCursor(latest_processed_block, current_block)
    /\ pc' = "sleep"
    /\ UNCHANGED <<current_block, rows, events, backer_addresses, blacklisted,
                   valid_backers, checksum_backers, screening, cycle, prev, fetching>>

\* the try block: the trust call, the receipt check, and the return to the loop
Submit ==
    /\ pc = "submit"
    /\ \E outcome \in TrustOutcomes :
         LET result == TrustBatch(checksum_backers, outcome)
         IN  /\ trust_call' = CallOf(checksum_backers, result)
             /\ processed_events' = ProcessedAfterSubmit(processed_events, events, result)
             /\ calls' = IF processed_events' # processed_events
                         THEN calls \o <<"submit", "mark">>
                         ELSE Append(calls, "submit")
    /\ latest_processed_block' = AdvanceCursor(latest_processed_block, current_block)
    /\ pc' = "sleep"
    /\ UNCHANGED <<current_block, rows, events, backer_addresses, blacklisted,
                   valid_backers, checksum_backers, screening, cycle, prev, fetching>>

\* time.sleep(poll_interval), on the normal and on the error path
Sleep ==
    /\ pc = "sleep"
    /\ pc' = "loop"
    /\ UNCHANGED <<latest_processed_block, current_block, processed_events, rows,
                   events, backer_addresses, blacklisted, valid_backers,
                   checksum_backers, screening, trust_call, cycle, prev, fetching,
                   calls>>

Next ==
    \/ StartEventProcessor
    \/ ReadHeight
    \/ Fetch
    \/ Screen
    \/ Submit
    \/ Sleep

Spec == Init /\ [][Next]_vars

\* ------------------------------ trust_batch_with_Conditions called directly
\* address lists of up to MaxBatch addresses, in either letter case
BatchInputs ==
    LET addrs == [id : 1..NumAddrs, form : {"lower", "checksum"}]
    IN  UNION {[1..n -> addrs] : n \in 0..MaxBatch}

\* one call of the method on a constructed handler
DirectTrustBatch ==
    /\ pc = "init"
    /\ \E addresses \in BatchInputs, outcome \in TrustOutcomes :
         trust_call' = CallOf(addresses, TrustBatch(addresses, outcome))
    /\ UNCHANGED <<pc, latest_processed_block, current_block, processed_events, rows,
                   events, backer_addresses, blacklisted, valid_backers,
                   checksum_backers, screening, cycle, prev, fetching, calls>>

NextTrust == DirectTrustBatch

SpecTrust == Init /\ [][NextTrust]_vars

\* ================================================================ claims

\* C1: in every cycle, no address the screening call returned as flagged is in
\* the batch passed to the trust submission of that cycle, whatever the letter
\* case in which the service spelled it.
C1_FlaggedNeverSubmitted ==
    trust_call.called =>
        \A f \in blacklisted : \A a \in SeqToSet(trust_call.addresses) :
            ~SameAccount(f, a)

\* C2: an event whose event_id is already in the processed set and that the
\* query returns again is excluded from the cycle's events: its backer is not
\* collected (the collected backers are those of the events, one for one), no
\* submission is made on its account, and a cycle whose returned rows are all
\* processed already makes no screening call and no submission.
C2_ProcessedExcluded ==
    /\ \A id \in RowIds(rows) \cap cycle.processed_at_start :
           id \notin EventIds(events) /\ id \notin SubmittedFor
    /\ backer_addresses = BackerAddresses(events)
    /\ (RowIds(rows) \subseteq cycle.processed_at_start) =>
           (screening = "none" /\ ~trust_call.called)

\* a cycle whose query returned a processed event and a new one, and submitted
C2_Witness ==
    /\ pc = "sleep"
    /\ trust_call.called
    /\ RowIds(rows) \cap cycle.processed_at_start # {}
    /\ RowIds(rows) \ cycle.processed_at_start # {}

C4_FailedSubmitMarksNothing ==
    (trust_call.called /\ (trust_call.raised \/ trust_call.status # 1)) =>
        processed_events = cycle.processed_at_start

\* a submission mined with status 0 in a cycle that had new events
C4_Witness ==
    /\ pc = "sleep"
    /\ trust_call.called
    /\ ~trust_call.raised
    /\ trust_call.status = 0
    /\ events # <<>>

\* C5: when the trust submission is confirmed with status 1, every event
\* fetched as new in the cycle is in the processed set, also those whose
\* backer was flagged and left out of the batch.
C5_ConfirmedMarksAll ==
    Confirmed => EventIds(events) \subseteq processed_events

\* a confirmed submission in a cycle with an event whose backer was flagged
\* and is not in the batch
C5_Witness ==
    /\ Confirmed
    /\ \E i \in 1..Len(events) :
         /\ events[i].backer \in blacklisted
         /\ ToChecksum(events[i].backer) \notin SeqToSet(trust_call.addresses)

\* C6: if the screening call fails or raises, the valid set of the cycle is the
\* full list of collected backers and the batch is submitted for all of them
\* (read with the proviso that every collected backer is a well-formed address).
C6_ScreeningFailOpen ==
    (/\ pc = "sleep"
     /\ screening \in {"request_failed", "raised"}
     /\ ~ChecksumRaises(backer_addresses)) =>
        /\ valid_backers = backer_addresses
        /\ trust_call.called
        /\ trust_call.addresses = ChecksumBackers(backer_addresses)

\* C7: a call of the submitter with an empty address list raises before a
\* transaction is built, signed or broadcast.
C7_EmptyBatchRejected ==
    (trust_call.called /\ trust_call.addresses = <<>>) =>
        /\ trust_call.raised
        /\ ~trust_call.built
        /\ ~trust_call.signed
        /\ ~trust_call.sent

\* the submitter was called with an empty list
C7_Witness == trust_call.called /\ trust_call.addresses = <<>>

\* C8: the cursor never decreases, also when the observed height is at or
\* below it.
C8_CursorMonotonic ==
    [][latest_processed_block' >= latest_processed_block]_vars

\* a cycle that read a height below the cursor
C8_Witness ==
    /\ pc = "sleep"
    /\ cycle.height_read
    /\ current_block < latest_processed_block

\* C9 as stated: after every cycle the cursor equals the height observed at
\* the start of that cycle, whatever happened in the cycle.
C9_CursorEqualsHeight ==
    (pc = "sleep" /\ cycle.height_read) => latest_processed_block = current_block

\* C9 as amended: after a cycle the cursor equals the observed height when that
\* height was above the cursor and no exception reached the handler of the
\* loop; otherwise the cursor is what it was when the cycle started.
C9_CursorAfterCycle ==
    pc = "sleep" =>
        latest_processed_block =
            IF cycle.height_read /\ current_block > cycle.cursor_at_start /\ ~cycle.error
            THEN current_block
            ELSE cycle.cursor_at_start

\* a cycle with new blocks in which the screening call raised
C9_Witness ==
    /\ pc = "sleep"
    /\ screening = "raised"
    /\ cycle.error
    /\ current_block > cycle.cursor_at_start

\* C10: the processed set is empty at start and every step leaves it a
\* superset of what it was.
C10_AppendOnly ==
    /\ processed_events = {}
    /\ [][processed_events \subseteq processed_events']_vars

\* a cycle that added events to a processed set that was not empty
C10_Witness ==
    /\ pc = "sleep"
    /\ cycle.processed_at_start # {}
    /\ processed_events # cycle.processed_at_start

\* C11: the address list passed to the trust submission holds no address
\* twice, also when several new events of the cycle have the same backer.
C11_NoDuplicateInBatch ==
    trust_call.called =>
        \A i \in 1..Len(trust_call.addresses) : \A j \in 1..Len(trust_call.addresses) :
            i # j => trust_call.addresses[i] # trust_call.addresses[j]

\* C12: in a cycle with cursor c and observed height h > c, every event handed
\* on to screening and submission has its block number in c+1 .. h.
C12_EventsInBlockRange ==
    \A i \in 1..Len(events) :
        /\ events[i].blockNumber >= cycle.cursor_at_start + 1
        /\ events[i].blockNumber <= current_block

\* C13: a cycle whose observed height is not above the cursor does nothing
\* after reading the height: no fetch, no screening call, no submission, and
\* the cursor and the processed set stay as they were.
C13_NoOpCycle ==
    (pc = "sleep" /\ cycle.height_read /\ current_block <= cycle.cursor_at_start) =>
        /\ calls = <<"height">>
        /\ fetching = "none"
        /\ screening = "none"
        /\ ~trust_call.called
        /\ latest_processed_block = cycle.cursor_at_start
        /\ processed_events = cycle.processed_at_start

\* a cycle that read a height equal to the cursor, with events processed before
C13_Witness ==
    /\ pc = "sleep"
    /\ cycle.height_read
    /\ current_block = cycle.cursor_at_start
    /\ processed_events # {}

\* a cycle whose screening call returned and left no valid backer
EmptyValid ==
    /\ pc = "sleep"
    /\ screening \in {"ok", "request_failed"}
    /\ valid_backers = <<>>

\* C14: when every collected backer of a cycle is flagged, all events fetched
\* as new in the cycle are marked processed and no submission is made; an
\* event in the processed set stays in it and is never returned by a later
\* fetch, so it is never screened or submitted again.
C14_EmptyValidMarksAll ==
    /\ [](EmptyValid =>
            /\ events # <<>>
            /\ EventIds(events) \subseteq processed_events
            /\ ~trust_call.called)
    /\ [][\A id \in processed_events :
            /\ id \in processed_events'
            /\ pc = "fetch" => id \notin EventIds(events')]_vars
    /\ [](backer_addresses = BackerAddresses(events) /\ SubmittedFor \subseteq EventIds(events))

\* a cycle in which two or more events were fetched and every backer was flagged
C14_Witness ==
    /\ EmptyValid
    /\ Len(events) >= 2
    /\ EventIds(events) \subseteq processed_events

\* C15: the event fetch never raises to its caller: on a transport or parse
\* failure it returns no events, and the cycle makes no screening call and no
\* submission, leaves the processed set unchanged and goes on to the sleep.
C15_FetchFailureIsNoEvents ==
    (fetching = "failed") =>
        /\ ~cycle.error
        /\ events = <<>>
        /\ calls = <<"height", "fetch">>
        /\ screening = "none"
        /\ ~trust_call.called
        /\ processed_events = cycle.processed_at_start
        /\ pc \in {"sleep", "loop"}

\* a fetch that failed on rows that held an event not yet processed
C15_Witness ==
    /\ pc = "sleep"
    /\ fetching = "failed"
    /\ RowIds(rows) \ processed_events # {}

\* The thread always takes its next step: every blocking call returns or
\* raises, and the sleep ends.
FairSpec == Spec /\ WF_vars(Next)

\* how many steps the thread is away from the top of the loop
StepsToLoop(p) ==
    CASE p = "fetch" -> 4
      [] p = "screen" -> 3
      [] p = "submit" -> 2
      [] p = "sleep" -> 1
      [] OTHER -> 0

\* C16: no error raised inside a cycle ends the loop.  Whenever an exception
\* has reached the handler of the loop the thread is at the sleep or back at
\* the top of the loop; at every position of the loop a step is possible;
\* every step inside a cycle brings the thread closer to the top of the loop,
\* and the sleep leads there.  So the next cycle begins, provided each
\* blocking call returns or raises.
C16_ErrorsDoNotStopLoop ==
    /\ [](cycle.error => pc \in {"sleep", "loop"})
    /\ [](pc \in {"loop", "fetch", "screen", "submit", "sleep"} => ENABLED Next)
    /\ [][(pc \in {"fetch", "screen", "submit", "sleep"}) =>
              (StepsToLoop(pc') < StepsToLoop(pc))]_vars
    /\ [][pc = "sleep" => pc' = "loop"]_vars

\* C16 as a leads-to property, under FairSpec: the sleep after an error, and
\* every position inside a cycle, is followed by the top of the loop.
C16_NextCycleBegins ==
    /\ (cycle.error /\ pc = "sleep") ~> (pc = "loop")
    /\ (pc \in {"fetch", "screen", "submit", "sleep"}) ~> (pc = "loop")

\* the sleep after an error raised by the screening call or by the checksum
\* conversion
C16_Witness ==
    /\ pc = "sleep"
    /\ cycle.error
    /\ "screen" \in SeqToSet(calls)

\* the loop has been entered and no cycle has begun yet
JustStarted == pc = "loop" /\ cycle = NoCycle

\* C17: the initial cursor is max(39741602, H - 1000) for the height H read at
\* startup: never below the deployment block, and exactly 1000 blocks behind H
\* when H - 1000 is at or above the deployment block.
C17_InitialCursor ==
    JustStarted =>
        /\ latest_processed_block =
               IF current_block - 1000 > 39741602
               THEN current_block - 1000
               ELSE 39741602
        /\ latest_processed_block >= 39741602
        /\ (current_block - 1000 >= 39741602) =>
               (current_block - latest_processed_block = 1000)

\* a start at a height more than 1000 blocks above the deployment block
C17_Witness ==
    /\ JustStarted
    /\ current_block - 1000 > 39741602

\* the orders in which one cycle can make its calls
CallOrders ==
    {<<>>,
     <<"height">>,
     <<"height", "fetch">>,
     <<"height", "fetch", "screen">>,
     <<"height", "fetch", "screen", "mark">>,
     <<"height", "fetch", "screen", "submit">>,
     <<"height", "fetch", "screen", "submit", "mark">>}

IsPrefix(s, t) == Len(s) <= Len(t) /\ SubSeq(t, 1, Len(s)) = s

\* C18: a cycle makes its calls in the order fetch, screen, submit, mark: at
\* most one submission, made after the screening call has returned; events are
\* marked only after a receipt of the submission was obtained or after the
\* valid set was found empty; within a cycle calls are only added, and a new
\* cycle begins only from the top of the loop, after the previous one ended.
C18_CycleOrder ==
    /\ [](calls \in CallOrders)
    /\ [](("submit" \in SeqToSet(calls)) <=> trust_call.called)
    /\ [](trust_call.called => screening \in {"ok", "request_failed"})
    /\ [](("mark" \in SeqToSet(calls)) =>
             \/ Confirmed
             \/ (~trust_call.called /\ screening = "ok" /\ valid_backers = <<>>))
    /\ [](processed_events # cycle.processed_at_start => "mark" \in SeqToSet(calls))
    /\ [][\/ IsPrefix(calls, calls')
          \/ (calls' = <<"height">> /\ pc = "loop")]_vars

\* a cycle that fetched, screened, submitted and then marked
C18_Witness ==
    /\ pc = "sleep"
    /\ calls = <<"height", "fetch", "screen", "submit", "mark">>

\* C19: an event whose backer was in a failed submission is returned as new
\* again by the next cycle's fetch when the query still returns it, is screened
\* again and, unless the service flags its backer, is in a new submission
\* (read with the proviso that every collected backer is a well-formed address).
C19_FailedSubmissionRetried ==
    (/\ pc = "sleep"
     /\ fetching = "ok"
     /\ ~prev.confirmed
     /\ ~ChecksumRaises(backer_addresses)) =>
        \A i \in 1..Len(rows) :
            EventId(rows[i]) \in prev.submitted =>
                /\ EventId(rows[i]) \in EventIds(events)
                /\ "screen" \in SeqToSet(calls)
                /\ (\A f \in blacklisted : ~SameAccount(f, rows[i].backer)) =>
                       EventId(rows[i]) \in SubmittedFor

\* C20: the loop never calls the screening with an empty candidate list and
\* never calls the trust submission with an empty address list, so the
\* submitter's empty-input error does not occur there: a cycle without new
\* events ends before the screening, a cycle without valid backers before the
\* submission.
C20_NoEmptyCalls ==
    /\ ("screen" \in SeqToSet(calls)) => (backer_addresses # <<>> /\ events # <<>>)
    /\ trust_call.called => (trust_call.addresses # <<>> /\ valid_backers # <<>>)
    /\ (pc = "submit") => checksum_backers # <<>>
    /\ (pc = "screen") => backer_addresses # <<>>
    /\ (pc = "sleep" /\ fetching = "ok" /\ events = <<>>) => calls = <<"height", "fetch">>
    /\ EmptyValid => ~trust_call.called

\* a cycle that screened its candidates, found none valid and made no submission
C20_Witness ==
    /\ EmptyValid
    /\ "screen" \in SeqToSet(calls)
    /\ ~trust_call.called
    /\ backer_addresses # <<>>

====
